---- MODULE Spec2Model ----
(***************************************************************************)
(* Model of src/ChainOfResponsbility.py: a chain of request handlers       *)
(* (DataValidation, IPFiltering, Caching, FinalProcessing) linked by       *)
(* Handler.set_next and run by handle.                                     *)
(*                                                                         *)
(* Encoding of Python values:                                              *)
(*   - an optional value (a reference that may be None) is a sequence of   *)
(*     length 0 or 1: None == <<>>, Some(x) == <<x>>;                      *)
(*   - request ids, addresses, cached values and results are strings;      *)
(*   - the raw payload is a sequence of one-character strings, so that     *)
(*     str.strip() is computed character by character; an f-string turns  *)
(*     it into a string with Join;                                         *)
(*   - a dict is a function whose DOMAIN is its key set.                   *)
(* The logger calls write to stderr and are not part of the state.         *)
(***************************************************************************)
EXTENDS Integers, Sequences, FiniteSets, TLC

VARIABLES
    next_handler,   \* Handler.next_handler of every handler object
    blocked_ips,    \* IPFilteringHandler.blocked_ips of ip_handler
    cache,          \* CachingHandler.cache of cache_handler
    ctor_args,      \* the arguments the two configurable constructors received
    status,         \* the caller's position: "idle", "running" (inside handle), "done"
    request,        \* the Request passed to the running / last handle call
    stack,          \* the call stack of the running handle call
    result,         \* the value most recently returned by a handle method
    calls,          \* the handle methods entered during the running / last call
    set_next_ret,   \* the value of the set_next call just evaluated, if any
    last_call,      \* the set_next call executed last, if it was the caller's last step
    last_set_next,  \* per handler, the argument of the most recent set_next on it
    before,         \* what the running / last handle call found: links, configuration, request
    first           \* the value the preceding identical handle call returned, if it is repeated

vars == <<next_handler, blocked_ips, cache, ctor_args, status, request, stack,
          result, calls, set_next_ret, last_call, last_set_next, before, first>>

-----------------------------------------------------------------------------
(* Bounds of the model *)

\* longest raw payload, in characters
MaxLen == 2

-----------------------------------------------------------------------------
(* Python values *)

None == <<>>
Some(x) == <<x>>
Val(o) == o[1]

\* the characters payloads are made of, and those str.strip() removes
Char == {" ", "x"}
Whitespace == {" ", "\t", "\n", "\r"}

RECURSIVE lstrip(_)
lstrip(s) ==
    IF s # <<>> /\ Head(s) \in Whitespace THEN lstrip(Tail(s)) ELSE s

RECURSIVE rstrip(_)
rstrip(s) ==
    IF s # <<>> /\ s[Len(s)] \in Whitespace
    THEN rstrip(SubSeq(s, 1, Len(s) - 1))
    ELSE s

\* str.strip()
strip(s) == rstrip(lstrip(s))

\* the characters of s as one string (what an f-string interpolation yields)
RECURSIVE Join(_)
Join(s) == IF s = <<>> THEN "" ELSE Head(s) \o Join(Tail(s))

\* Python truth value of an optional str held as a character sequence
TruthyChars(o) == o # None /\ Val(o) # <<>>
\* Python truth value of an optional str held as a string
TruthyStr(o) == o # None /\ Val(o) # ""
\* Python truth value of an optional object reference
TruthyObj(o) == o # None

\* dict.get(key): the value, or None when the key is absent
dict_get(d, key) == IF key \in DOMAIN d THEN Some(d[key]) ELSE None

-----------------------------------------------------------------------------
(* The objects of the program *)

\* the four handler objects of lines 91-94
Handlers == {"validation_handler", "ip_handler", "cache_handler", "processing_handler"}

\* the class of each handler object
Class(h) ==
    CASE h = "validation_handler" -> "DataValidationHandler"
      [] h = "ip_handler"         -> "IPFilteringHandler"
      [] h = "cache_handler"      -> "CachingHandler"
      [] h = "processing_handler" -> "FinalProcessingHandler"

\* default configuration of lines 60 and 73
DefaultBlockedIps == {"192.168.0.10", "10.0.0.1"}
DefaultCache == [k \in {"123"} |-> "Cached Response for request 123"]

\* the inputs requests are drawn from
Ids == {"123", "200"}
IPs == {"192.168.0.10", "192.168.1.5"}
RECURSIVE CharSeqs(_)
CharSeqs(n) ==
    IF n = 0 THEN {<<>>}
    ELSE CharSeqs(n - 1) \cup
         {Append(s, c) : s \in {t \in CharSeqs(n - 1) : Len(t) = n - 1}, c \in Char}
Payloads == {None} \cup {Some(s) : s \in CharSeqs(MaxLen)}

\* Request.__init__
Request(request_id, data, client_ip) ==
    [request_id |-> request_id, _data |-> data, _client_ip |-> client_ip]

Requests == {Request(i, d, a) : i \in Ids, d \in Payloads, a \in IPs}

\* Request.data returning the payload as given, without strip()
Request_data_unstripped(r) == IF TruthyChars(r._data) THEN Val(r._data) ELSE <<>>

\* Request.data (property)
Request_data(r) == IF TruthyChars(r._data) THEN strip(Val(r._data)) ELSE <<>>

\* Request.client_ip (property)
Request_client_ip(r) == r._client_ip

-----------------------------------------------------------------------------
(* Construction *)

\* IPFilteringHandler.__init__: blocked_ips or the default set
IPFilteringHandler__init__(arg) ==
    IF arg # None /\ Val(arg) # {} THEN Val(arg) ELSE DefaultBlockedIps

\* CachingHandler.__init__: cache or the default mapping
CachingHandler__init__(arg) ==
    IF arg # None /\ DOMAIN Val(arg) # {} THEN Val(arg) ELSE DefaultCache

\* the state after lines 91-94 when the two constructors received bips and cch
Constructed(bips, cch) ==
    /\ next_handler = [h \in Handlers |-> None]
    /\ blocked_ips = IPFilteringHandler__init__(bips)
    /\ cache = CachingHandler__init__(cch)
    /\ ctor_args = [blocked_ips |-> bips, cache |-> cch]
    /\ status = "idle"
    /\ request = None
    /\ stack = <<>>
    /\ result = None
    /\ calls = <<>>
    /\ set_next_ret = None
    /\ last_call = None
    /\ last_set_next = [h \in Handlers |-> None]
    /\ before = None
    /\ first = None

\* lines 91-94: every handler constructed without arguments
Init == Constructed(None, None)

-----------------------------------------------------------------------------
(* Handler.set_next *)

\* set_next returning the receiver instead of its argument
set_next_returns_self(nh, self, handler) ==
    [next_handler |-> [nh EXCEPT ![self] = Some(handler)], ret |-> self]

\* set_next keeping a successor that is already set
set_next_keeps_first(nh, self, handler) ==
    [next_handler |-> IF nh[self] = None THEN [nh EXCEPT ![self] = Some(handler)] ELSE nh,
     ret |-> handler]

\* set_next with receiver and argument exchanged: the argument is linked to the receiver
set_next_reversed(nh, self, handler) ==
    [next_handler |-> [nh EXCEPT ![handler] = Some(self)], ret |-> handler]

\* Handler.set_next on the successor table nh: the new table and the return value
set_next(nh, self, handler) ==
    [next_handler |-> [nh EXCEPT ![self] = Some(handler)], ret |-> handler]

\* one set_next call made by the caller on receiver self; chained tells that the
\* receiver is the value the preceding set_next call returned
CallSetNext(self, handler, chained) ==
    /\ status = "idle"
    /\ LET r == set_next(next_handler, self, handler)
       IN  /\ next_handler' = r.next_handler
           /\ set_next_ret' = Some(r.ret)
    /\ last_call' = Some([self |-> self, handler |-> handler, chained |-> chained,
                          prev |-> IF chained
                                   THEN Some(<<Val(last_call).self, Val(last_call).handler>>)
                                   ELSE None])
    /\ last_set_next' = [last_set_next EXCEPT ![self] = Some(handler)]
    /\ UNCHANGED <<blocked_ips, cache, ctor_args, status, request, stack, result, calls,
                   before, first>>

\* a statement a.set_next(h), or the first call of a chained one (line 96)
SetNext(a, h) == CallSetNext(a, h, FALSE)

\* ...set_next(h): the next call of a chained statement, made on the value the
\* preceding call returned (line 96 chains three calls)
ChainedSetNext(h) ==
    /\ set_next_ret # None
    /\ CallSetNext(Val(set_next_ret), h, TRUE)

-----------------------------------------------------------------------------
(* handle *)

Top == stack[Len(stack)]

\* what a handle call finds when it starts: the links, the configuration, the request
Found(req) ==
    [next_handler |-> next_handler, blocked_ips |-> blocked_ips, cache |-> cache,
     request |-> req]

\* the caller evaluates h.handle(req) (line 107, for any handler and request)
HandleCall(h, req) ==
    /\ status = "idle"
    /\ status' = "running"
    /\ request' = Some(req)
    /\ stack' = <<[self |-> h, cls |-> Class(h), pc |-> "body", idx |-> 1]>>
    /\ calls' = <<[self |-> h, cls |-> Class(h), caller |-> 0, ret |-> None]>>
    /\ result' = None
    /\ set_next_ret' = None
    /\ last_call' = None
    /\ before' = Some(Found(req))
    /\ first' = None
    /\ UNCHANGED <<next_handler, blocked_ips, cache, ctor_args, last_set_next>>

\* the caller evaluates the same call once more: same handler, same Request
\* object, nothing done in between
HandleAgain ==
    /\ status = "done"
    /\ status' = "running"
    /\ stack' = <<[self |-> calls[1].self, cls |-> calls[1].cls, pc |-> "body", idx |-> 1]>>
    /\ calls' = <<[self |-> calls[1].self, cls |-> calls[1].cls, caller |-> 0, ret |-> None]>>
    /\ result' = None
    /\ before' = Some(Found(Val(request)))
    /\ first' = Some(result)
    /\ UNCHANGED <<next_handler, blocked_ips, cache, ctor_args, request,
                   set_next_ret, last_call, last_set_next>>

\* `return v` in the running method: the frame is popped and v goes to the
\* frame that called it, or to the caller of handle when there is none
Return(v) ==
    /\ result' = v
    /\ calls' = [calls EXCEPT ![Top.idx].ret = Some(v)]
    /\ IF Len(stack) = 1
       THEN /\ stack' = <<>>
            /\ status' = "done"
       ELSE /\ stack' = [SubSeq(stack, 1, Len(stack) - 1)
                            EXCEPT ![Len(stack) - 1].pc = "resume"]
            /\ UNCHANGED status

\* self.handle(request) instead of super().handle(request): the method enters itself
CallSelfHandle ==
    /\ stack' = Append([stack EXCEPT ![Len(stack)].pc = "await"],
                       [self |-> Top.self, cls |-> Class(Top.self), pc |-> "body",
                        idx |-> Len(calls) + 1])
    /\ calls' = Append(calls, [self |-> Top.self, cls |-> Class(Top.self),
                               caller |-> Top.idx, ret |-> None])
    /\ UNCHANGED <<status, result>>

\* self.next_handler.handle(request) instead of super().handle(request): the
\* successor's handle is entered
CallNextHandle ==
    LET s == Val(next_handler[Top.self])
    IN  /\ stack' = Append([stack EXCEPT ![Len(stack)].pc = "await"],
                           [self |-> s, cls |-> Class(s), pc |-> "body",
                            idx |-> Len(calls) + 1])
        /\ calls' = Append(calls, [self |-> s, cls |-> Class(s),
                                   caller |-> Top.idx, ret |-> None])
        /\ UNCHANGED <<status, result>>

\* `super().handle(request)` in a subclass of Handler: Handler.handle is
\* entered on the same object
CallSuperHandle ==
    /\ stack' = Append([stack EXCEPT ![Len(stack)].pc = "await"],
                       [self |-> Top.self, cls |-> "Handler", pc |-> "body",
                        idx |-> Len(calls) + 1])
    /\ calls' = Append(calls, [self |-> Top.self, cls |-> "Handler",
                               caller |-> Top.idx, ret |-> None])
    /\ UNCHANGED <<status, result>>

Running(cls) ==
    /\ status = "running"
    /\ stack # <<>>
    /\ Top.cls = cls
    /\ Top.pc = "body"

\* DataValidationHandler.handle testing the raw payload instead of the stripped one
DataValidationHandler_handle_raw ==
    /\ Running("DataValidationHandler")
    /\ IF ~TruthyChars(Val(request)._data)
       THEN Return(Some("Rejected: Invalid data format"))
       ELSE IF TruthyObj(next_handler[Top.self])
            THEN CallSuperHandle
            ELSE Return(Some("Validation Complete"))
    /\ UNCHANGED <<next_handler, blocked_ips, cache, ctor_args, request,
                   set_next_ret, last_call, last_set_next, before, first>>

\* DataValidationHandler.handle, up to its return or its call
DataValidationHandler_handle ==
    /\ Running("DataValidationHandler")
    /\ IF Request_data(Val(request)) = <<>>
       THEN Return(Some("Rejected: Invalid data format"))
       ELSE IF TruthyObj(next_handler[Top.self])
            THEN CallSuperHandle
            ELSE Return(Some("Validation Complete"))
    /\ UNCHANGED <<next_handler, blocked_ips, cache, ctor_args, request,
                   set_next_ret, last_call, last_set_next, before, first>>

\* IPFilteringHandler.handle, up to its return or its call
IPFilteringHandler_handle ==
    /\ Running("IPFilteringHandler")
    /\ IF Request_client_ip(Val(request)) \in blocked_ips
       THEN Return(Some("Rejected: Blocked IP " \o Request_client_ip(Val(request))))
       ELSE IF TruthyObj(next_handler[Top.self])
            THEN CallSuperHandle
            ELSE Return(Some("IP Check Complete"))
    /\ UNCHANGED <<next_handler, blocked_ips, cache, ctor_args, request,
                   set_next_ret, last_call, last_set_next, before, first>>

\* CachingHandler.handle with the test of next_handler inverted
CachingHandler_handle_inverted ==
    /\ Running("CachingHandler")
    /\ LET cached_response == dict_get(cache, Val(request).request_id)
       IN  IF TruthyStr(cached_response)
           THEN Return(cached_response)
           ELSE IF ~TruthyObj(next_handler[Top.self])
                THEN CallSuperHandle
                ELSE Return(Some("Cache Check Complete"))
    /\ UNCHANGED <<next_handler, blocked_ips, cache, ctor_args, request,
                   set_next_ret, last_call, last_set_next, before, first>>

\* CachingHandler.handle storing a response for the request id on a miss
CachingHandler_handle_stores ==
    /\ Running("CachingHandler")
    /\ LET cached_response == dict_get(cache, Val(request).request_id)
           id == Val(request).request_id
       IN  IF TruthyStr(cached_response)
           THEN Return(cached_response) /\ UNCHANGED cache
           ELSE /\ cache' = [k \in DOMAIN cache \cup {id} |->
                               IF k = id THEN "Cached Response for request " \o id
                               ELSE cache[k]]
                /\ IF TruthyObj(next_handler[Top.self])
                   THEN CallSuperHandle
                   ELSE Return(Some("Cache Check Complete"))
    /\ UNCHANGED <<next_handler, blocked_ips, ctor_args, request,
                   set_next_ret, last_call, last_set_next, before, first>>

\* CachingHandler.handle, up to its return or its call
CachingHandler_handle ==
    /\ Running("CachingHandler")
    /\ LET cached_response == dict_get(cache, Val(request).request_id)
       IN  IF TruthyStr(cached_response)
           THEN Return(cached_response)
           ELSE IF TruthyObj(next_handler[Top.self])
                THEN CallSuperHandle
                ELSE Return(Some("Cache Check Complete"))
    /\ UNCHANGED <<next_handler, blocked_ips, cache, ctor_args, request,
                   set_next_ret, last_call, last_set_next, before, first>>

\* the result string of FinalProcessingHandler.handle
Processed(r) ==
    "Processed: " \o r.request_id \o " with data '" \o Join(Request_data(r)) \o "'"

\* FinalProcessingHandler.handle
FinalProcessingHandler_handle ==
    /\ Running("FinalProcessingHandler")
    /\ Return(Some(Processed(Val(request))))
    /\ UNCHANGED <<next_handler, blocked_ips, cache, ctor_args, request,
                   set_next_ret, last_call, last_set_next, before, first>>

\* Handler.handle, the abstract method: its body is `pass`, so it returns None
Handler_handle ==
    /\ Running("Handler")
    /\ Return(None)
    /\ UNCHANGED <<next_handler, blocked_ips, cache, ctor_args, request,
                   set_next_ret, last_call, last_set_next, before, first>>

\* `return super().handle(request)`: the method returns what the call returned
ReturnSuperResult ==
    /\ status = "running"
    /\ stack # <<>>
    /\ Top.pc = "resume"
    /\ Return(result)
    /\ UNCHANGED <<next_handler, blocked_ips, cache, ctor_args, request,
                   set_next_ret, last_call, last_set_next, before, first>>

\* line 107: the caller prints the value handle returned and goes on
PrintResult ==
    /\ status = "done"
    /\ status' = "idle"
    /\ request' = None
    /\ result' = None
    /\ calls' = <<>>
    /\ before' = None
    /\ first' = None
    /\ UNCHANGED <<next_handler, blocked_ips, cache, ctor_args, stack,
                   set_next_ret, last_call, last_set_next>>

-----------------------------------------------------------------------------
(* The program: any statements of a caller, over the handlers of lines 91-94 *)

Next ==
    \/ \E a \in Handlers, h \in Handlers : SetNext(a, h)
    \/ \E h \in Handlers : ChainedSetNext(h)
    \/ \E h \in Handlers, req \in Requests : HandleCall(h, req)
    \/ HandleAgain
    \/ DataValidationHandler_handle
    \/ IPFilteringHandler_handle
    \/ CachingHandler_handle
    \/ FinalProcessingHandler_handle
    \/ Handler_handle
    \/ ReturnSuperResult
    \/ PrintResult

Spec == Init /\ [][Next]_vars

-----------------------------------------------------------------------------
(* The program of lines 89-107 with configured handlers: the two constructors
   receive any argument, the chain is wired as on line 96, and handle is called
   on any handler with any request *)

\* the arguments IPFilteringHandler(...) is constructed with
BlockedIpsArgs == {None} \cup {Some(ips) : ips \in SUBSET IPs}

\* the arguments CachingHandler(...) is constructed with
CachedValues == {"", "Cached Response for request 123"}
CacheArgs ==
    {None} \cup {Some(m) : m \in UNION {[ks -> CachedValues] : ks \in SUBSET Ids}}

InitConfigured ==
    \E bips \in BlockedIpsArgs, cch \in CacheArgs : Constructed(bips, cch)

\* line 96, call by call
Line96 ==
    \/ /\ next_handler["validation_handler"] = None
       /\ SetNext("validation_handler", "ip_handler")
    \/ /\ set_next_ret = Some("ip_handler")
       /\ next_handler["ip_handler"] = None
       /\ ChainedSetNext("cache_handler")
    \/ /\ set_next_ret = Some("cache_handler")
       /\ next_handler["cache_handler"] = None
       /\ ChainedSetNext("processing_handler")

NextConfigured ==
    \/ Line96
    \/ \E h \in Handlers, req \in Requests : HandleCall(h, req)
    \/ HandleAgain
    \/ DataValidationHandler_handle
    \/ IPFilteringHandler_handle
    \/ CachingHandler_handle
    \/ FinalProcessingHandler_handle
    \/ Handler_handle
    \/ ReturnSuperResult
    \/ PrintResult

SpecConfigured == InitConfigured /\ [][NextConfigured]_vars

-----------------------------------------------------------------------------
(* Vocabulary of the properties *)

\* the handler the caller called handle on
HeadOf == calls[1].self

\* the four-handler chain of line 96
FullChain ==
    /\ next_handler["validation_handler"] = Some("ip_handler")
    /\ next_handler["ip_handler"] = Some("cache_handler")
    /\ next_handler["cache_handler"] = Some("processing_handler")

\* trim(payload): the payload without leading and trailing whitespace, empty when absent
Trimmed(r) == IF r._data = None THEN <<>> ELSE strip(Val(r._data))

\* the raw payload is present and holds nothing but whitespace (the empty payload included)
RawBlank(r) ==
    /\ r._data # None
    /\ \A i \in 1..Len(Val(r._data)) : Val(r._data)[i] \in Whitespace

\* "Processed: " + id + " with data '" + trim(payload) + "'"
ProcessedText(r) ==
    "Processed: " \o r.request_id \o " with data '" \o Join(Trimmed(r)) \o "'"

\* the request passes the own check of a handler of class cls
PassesCheck(cls, r) ==
    CASE cls = "DataValidationHandler" -> Trimmed(r) # <<>>
      [] cls = "IPFilteringHandler"    -> r._client_ip \notin blocked_ips
      [] cls = "CachingHandler"        -> r.request_id \notin DOMAIN cache
      [] OTHER                         -> TRUE

Forwarding == {"DataValidationHandler", "IPFilteringHandler", "CachingHandler"}

\* a handle call on the head of the full chain has returned
HeadReturned ==
    /\ status = "done"
    /\ HeadOf = "validation_handler"
    /\ FullChain

-----------------------------------------------------------------------------
(* Properties *)

\* C1: on the chain DataValidation -> IPFiltering -> Caching -> FinalProcessing,
\* for a request with non-empty trimmed payload, an origin that is not blocked
\* and an id that is not cached, handle on the head returns
\* "Processed: " + id + " with data '" + trim(payload) + "'".
C1_HeadReturnsProcessed ==
    (/\ HeadReturned
     /\ Trimmed(Val(request)) # <<>>
     /\ Val(request)._client_ip \notin blocked_ips
     /\ Val(request).request_id \notin DOMAIN cache)
    => result = Some(ProcessedText(Val(request)))

\* C2: a DataValidation, IPFiltering or Caching handler h with successor s whose
\* check the request passes invokes s.handle exactly once and returns what that
\* call returned.
C2_ForwardsToSuccessorOnce ==
    status = "done" =>
        \A i \in 1..Len(calls) :
            (/\ calls[i].cls \in Forwarding
             /\ next_handler[calls[i].self] # None
             /\ PassesCheck(calls[i].cls, Val(request)))
            => LET s == Val(next_handler[calls[i].self])
                   made == {j \in 1..Len(calls) : /\ calls[j].caller = i
                                                  /\ calls[j].self = s
                                                  /\ calls[j].cls = Class(s)}
               IN  /\ Cardinality(made) = 1
                   /\ \A j \in made : calls[i].ret = calls[j].ret

\* C3: on the full chain, for a request with non-empty trimmed payload whose
\* origin is blocked, handle on the head returns "Rejected: Blocked IP " + origin,
\* whatever the id.
C3_HeadRejectsBlockedIp ==
    (/\ HeadReturned
     /\ Trimmed(Val(request)) # <<>>
     /\ Val(request)._client_ip \in blocked_ips)
    => result = Some("Rejected: Blocked IP " \o Val(request)._client_ip)

\* C4: on the full chain, for a request with non-empty trimmed payload, an origin
\* that is not blocked and a cached id, handle on the head returns the cached
\* value and FinalProcessingHandler.handle is not executed.
C4_HeadReturnsCachedValue ==
    (/\ HeadReturned
     /\ Trimmed(Val(request)) # <<>>
     /\ Val(request)._client_ip \notin blocked_ips
     /\ Val(request).request_id \in DOMAIN cache)
    => /\ result = Some(cache[Val(request).request_id])
       /\ \A i \in 1..Len(calls) : calls[i].cls # "FinalProcessingHandler"

\* C5: when handle is called on a DataValidationHandler, whatever its successor,
\* with a request whose raw payload is empty or only whitespace, it returns
\* "Rejected: Invalid data format" and no other handle method is entered,
\* whatever the origin and the id.
C5_BlankPayloadRejected ==
    (/\ status \in {"running", "done"}
     /\ Class(HeadOf) = "DataValidationHandler"
     /\ RawBlank(Val(request)))
    => /\ Len(calls) = 1
       /\ status = "done" => result = Some("Rejected: Invalid data format")

\* C5 witness: a blank payload from a blocked origin with a cached id was rejected
\* by a DataValidationHandler that has a successor
C5_Witness ==
    /\ status = "done"
    /\ HeadOf = "validation_handler"
    /\ next_handler["validation_handler"] = Some("ip_handler")
    /\ Val(request)._data = Some(<<" ", " ">>)
    /\ Val(request)._client_ip \in blocked_ips
    /\ Val(request).request_id \in DOMAIN cache
    /\ result = Some("Rejected: Invalid data format")

\* the terminal outcomes: Rejected(reason), CacheHit(value), Complete(stage), Processed(id, payload)
Outcomes ==
    {"Rejected: Invalid data format"}
    \cup {"Rejected: Blocked IP " \o a : a \in IPs}
    \cup {cache[k] : k \in DOMAIN cache}
    \cup {"Validation Complete", "IP Check Complete", "Cache Check Complete"}
    \cup {ProcessedText(r) : r \in Requests}

\* C6: for every wiring and every request, handle returns one of the four kinds
\* of terminal outcome, never an absent value.
C6_ReturnsTerminalOutcome ==
    status = "done" => (result # None /\ Val(result) \in Outcomes)

\* C7: a handler without successor whose check the request passes returns its
\* own completion result: "Validation Complete", "IP Check Complete" or
\* "Cache Check Complete".
C7_CompleteWithoutSuccessor ==
    (/\ status = "done"
     /\ next_handler[HeadOf] = None
     /\ PassesCheck(Class(HeadOf), Val(request)))
    => /\ Class(HeadOf) = "DataValidationHandler" => result = Some("Validation Complete")
       /\ Class(HeadOf) = "IPFilteringHandler" => result = Some("IP Check Complete")
       /\ Class(HeadOf) = "CachingHandler" => result = Some("Cache Check Complete")

\* C7 witness: the CachingHandler, wired last behind the IPFilteringHandler,
\* completed on a cache miss
C7_Witness ==
    /\ status = "done"
    /\ HeadOf = "cache_handler"
    /\ next_handler["ip_handler"] = Some("cache_handler")
    /\ next_handler["cache_handler"] = None
    /\ Val(request).request_id \notin DOMAIN cache
    /\ result = Some("Cache Check Complete")

\* C8: FinalProcessingHandler.handle, with or without a successor wired to it,
\* returns "Processed: " + id + " with data '" + trim(payload) + "'" for every
\* request and never calls another handle method.
C8_FinalAlwaysProcesses ==
    status \in {"running", "done"} =>
        \A i \in 1..Len(calls) :
            calls[i].cls = "FinalProcessingHandler" =>
                /\ calls[i].ret \in {None, Some(Some(ProcessedText(Val(request))))}
                /\ \A j \in 1..Len(calls) : calls[j].caller # i
                /\ (status = "done" /\ i = 1) =>
                       result = Some(ProcessedText(Val(request)))

\* C8 witness: the FinalProcessingHandler, with a successor wired to it, returned
\* for a payload that needed trimming
C8_Witness ==
    /\ status = "done"
    /\ HeadOf = "processing_handler"
    /\ next_handler["processing_handler"] = Some("validation_handler")
    /\ Val(request)._data = Some(<<" ", "x">>)
    /\ result = Some("Processed: 200 with data 'x'")

\* C9: set_next(h) on a sets a's successor to h and returns h, so that
\* a.set_next(b).set_next(c), for three handlers a, b, c, leaves a's successor
\* equal to b, b's successor equal to c and c's successor as it was.
C9_SetNextReturnsArgument ==
    [][last_call' # None =>
         LET lc == Val(last_call')
         IN  /\ next_handler'[lc.self] = Some(lc.handler)
             /\ set_next_ret' = Some(lc.handler)
             /\ ~lc.chained =>
                    \A c \in Handlers \ {lc.self} : next_handler'[c] = next_handler[c]
             /\ lc.chained =>
                    LET a == Val(lc.prev)[1]
                        b == Val(lc.prev)[2]
                        c == lc.handler
                    IN  Cardinality({a, b, c}) = 3 =>
                            /\ next_handler'[a] = Some(b)
                            /\ next_handler'[b] = Some(c)
                            /\ next_handler'[c] = next_handler[c]]_vars

\* C9 witness: validation_handler.set_next(ip_handler).set_next(cache_handler) was executed
C9_Witness ==
    /\ last_call # None
    /\ Val(last_call).chained
    /\ Val(last_call).prev = Some(<<"validation_handler", "ip_handler">>)
    /\ Val(last_call).handler = "cache_handler"
    /\ next_handler["validation_handler"] = Some("ip_handler")
    /\ next_handler["ip_handler"] = Some("cache_handler")

\* C10: every handler's successor is the argument of the most recent set_next
\* call made on it, or None when there was none: a later call replaces the
\* earlier successor and no call touches another handler's link.
C10_LastSetNextWins ==
    \A h \in Handlers : next_handler[h] = last_set_next[h]

\* C10 witness: ip_handler.set_next(ip_handler).set_next(cache_handler) made two
\* calls on ip_handler, and the second argument is its successor
C10_Witness ==
    /\ last_call # None
    /\ Val(last_call).chained
    /\ Val(last_call).prev = Some(<<"ip_handler", "ip_handler">>)
    /\ Val(last_call).self = "ip_handler"
    /\ Val(last_call).handler = "cache_handler"
    /\ next_handler["ip_handler"] = Some("cache_handler")
    /\ next_handler["cache_handler"] = None

\* C11: calling handle twice on the same handler with the same Request object,
\* with no set_next and no change of configuration in between, yields the same
\* result both times.
C11_HandleIdempotent ==
    (status = "done" /\ first # None) => result = Val(first)

\* C11 witness: the CachingHandler, without successor, was called a second time
\* on a request that missed the cache the first time
C11_Witness ==
    /\ status = "done"
    /\ first = Some(Some("Cache Check Complete"))
    /\ HeadOf = "cache_handler"
    /\ Val(request).request_id \notin DOMAIN cache
    /\ next_handler["cache_handler"] = None

\* an entry of calls that runs a handler's check (every handle method but Handler.handle)
IsCheck(e) == e.cls # "Handler"

\* the handlers whose check ran during the call, in the order they ran
Checked == SelectSeq(calls, IsCheck)

C15_HandleReadOnly ==
    status \in {"running", "done"} =>
        /\ Val(request) = Val(before).request
        /\ next_handler = Val(before).next_handler
        /\ blocked_ips = Val(before).blocked_ips
        /\ cache = Val(before).cache

\* C15 witness: the CachingHandler, with a successor, returned from a cache miss
\* and the cache still holds its one entry
C15_Witness ==
    /\ status = "done"
    /\ HeadOf = "cache_handler"
    /\ next_handler["cache_handler"] = Some("processing_handler")
    /\ Val(request).request_id = "200"
    /\ DOMAIN cache = {"123"}
    /\ first = None

\* a step of the running handle call
HandleStep ==
    \/ DataValidationHandler_handle
    \/ IPFilteringHandler_handle
    \/ CachingHandler_handle
    \/ FinalProcessingHandler_handle
    \/ Handler_handle
    \/ ReturnSuperResult

\* C17: every handle call returns after finitely many steps, under every wiring
\* (cyclic ones included): a running call can always take a step, and it enters
\* at most two handle methods, each of which returns once.
C17_HandleTerminates ==
    status = "running" =>
        /\ ENABLED HandleStep
        /\ Len(calls) <= 2
        /\ Len(stack) <= Len(calls)
        /\ Len(stack) = Cardinality({i \in 1..Len(calls) : calls[i].ret = None})

\* C17 witness: a call on a handler that is its own successor returned
C17_Witness ==
    /\ status = "done"
    /\ HeadOf = "ip_handler"
    /\ next_handler["ip_handler"] = Some("ip_handler")
    /\ Val(request)._client_ip \notin blocked_ips
    /\ first = None
    /\ Len(calls) = 2

\* the result of handle as a function of the handler's class and configuration,
\* the request, and whether the handler has a successor
ResultOf(cls, has_successor, r) ==
    LET forwarded(complete) == IF has_successor THEN None ELSE Some(complete)
    IN  CASE cls = "DataValidationHandler" ->
                 IF Trimmed(r) = <<>> THEN Some("Rejected: Invalid data format")
                 ELSE forwarded("Validation Complete")
          [] cls = "IPFilteringHandler" ->
                 IF r._client_ip \in blocked_ips
                 THEN Some("Rejected: Blocked IP " \o r._client_ip)
                 ELSE forwarded("IP Check Complete")
          [] cls = "CachingHandler" ->
                 IF r.request_id \in DOMAIN cache /\ cache[r.request_id] # ""
                 THEN Some(cache[r.request_id])
                 ELSE forwarded("Cache Check Complete")
          [] cls = "FinalProcessingHandler" -> Some(ProcessedText(r))

\* C18: the result of handle on h depends on h's class and configuration, on the
\* request and on whether h has a successor, and on nothing else: chains with
\* the same head that differ in the successor's type, configuration or further
\* wiring return the same result.
C18_ResultIgnoresSuccessor ==
    status = "done" =>
        result = ResultOf(Class(HeadOf), next_handler[HeadOf] # None, Val(request))

\* C18 witness: the DataValidationHandler, wired straight to the
\* FinalProcessingHandler, returned for a request that passes the validation
C18_Witness ==
    /\ status = "done"
    /\ HeadOf = "validation_handler"
    /\ next_handler["validation_handler"] = Some("processing_handler")
    /\ Trimmed(Val(request)) # <<>>
    /\ first = None
    /\ result = None

\* C13: an IPFilteringHandler constructed with a set of addresses, the empty
\* set included, uses that set: handle returns "Rejected: Blocked IP " + origin
\* exactly when the origin is a member of the supplied set; the default entries
\* apply only when no set is supplied.
C13_SuppliedBlockedSetUsed ==
    (/\ status = "done"
     /\ Class(HeadOf) = "IPFilteringHandler"
     /\ ctor_args.blocked_ips # None)
    => /\ blocked_ips = Val(ctor_args.blocked_ips)
       /\ result = Some("Rejected: Blocked IP " \o Val(request)._client_ip)
              <=> Val(request)._client_ip \in Val(ctor_args.blocked_ips)

\* C14: a CachingHandler constructed with a mapping, the empty mapping and
\* empty-string values included, uses that mapping: for an id that is a key,
\* handle returns mapping[id] without calling on, even with a successor wired;
\* an id that is not a key is a miss; the default entry applies only when no
\* mapping is supplied.
C14_SuppliedCacheUsed ==
    (/\ status = "done"
     /\ Class(HeadOf) = "CachingHandler"
     /\ ctor_args.cache # None)
    => LET m == Val(ctor_args.cache)
           id == Val(request).request_id
       IN  /\ cache = m
           /\ id \in DOMAIN m => (result = Some(m[id]) /\ Len(calls) = 1)
           /\ id \notin DOMAIN m =>
                  result = IF next_handler[HeadOf] = None
                           THEN Some("Cache Check Complete")
                           ELSE None

\* following the links nh from h for at most n steps arrives at a handler without successor
RECURSIVE EndsWithin(_, _, _)
EndsWithin(nh, h, n) ==
    IF nh[h] = None THEN TRUE
    ELSE IF n = 0 THEN FALSE
    ELSE EndsWithin(nh, Val(nh[h]), n - 1)

\* the links nh hold no cycle
NoCycle(nh) == \A h \in Handlers : EndsWithin(nh, h, Cardinality(Handlers))

\* the handlers met when following the links nh from h for at most n steps, h included
RECURSIVE Follow(_, _, _)
Follow(nh, h, n) ==
    IF n = 0 \/ nh[h] = None THEN {h}
    ELSE {h} \cup Follow(nh, Val(nh[h]), n - 1)

ReachableFrom(nh, h) == Follow(nh, h, Cardinality(Handlers))

\* C16: after any sequence of set_next calls, with any handler as argument (the
\* receiver itself or an earlier handler of the chain included), the successor
\* links hold no cycle: following next_handler from any handler ends at a
\* handler without successor.
C16_NeverACycle == NoCycle(next_handler)

\* C16 as amended: set_next links without looking at the chain. On links that
\* hold no cycle, a.set_next(h) leaves them without cycle exactly when a cannot
\* be reached from h (h itself included); so line 96 builds a chain without
\* cycle, and a.set_next(a), or an earlier handler as argument, builds a cycle.
C16_CycleOnlyWhenLinkingBack ==
    [][(last_call' # None /\ NoCycle(next_handler)) =>
         LET lc == Val(last_call')
         IN  NoCycle(next_handler') <=>
                 lc.self \notin ReachableFrom(next_handler, lc.handler)]_vars

\* C16 witness: line 96 was executed and its chain holds no cycle
C16_Witness ==
    /\ last_call # None
    /\ Val(last_call).chained
    /\ Val(last_call).self = "cache_handler"
    /\ Val(last_call).handler = "processing_handler"
    /\ FullChain
    /\ next_handler["processing_handler"] = None
    /\ NoCycle(next_handler)

====
